---- MODULE Spec2Model ----
(***************************************************************************)
(* Model of the Map Machine compositor (map_machine/mapper.py): Map.draw,  *)
(* Map.draw_buildings, Map.draw_simple_roads and render_map, together with *)
(* the icon resolution exercised by tests/test_icons.py.                   *)
(***************************************************************************)
EXTENDS Integers, Sequences, FiniteSets

VARIABLES
    entry,            \* the entry point that is running
    pc,               \* position inside the running entry point
    constructor,      \* the drawable set (Constructor): read only while drawing
    configuration,    \* MapConfiguration: read only while drawing
    svg,              \* the primitives added to the svgwrite.Drawing, in order
    i,                \* index of the running for loop
    occupied,         \* Optional[Occupied]: the claimed cells, when enabled
    painted,          \* per point: main_icon_painted
    attempts,         \* history of the draw_*_shapes / draw_texts calls
    previous_height,  \* draw_buildings: previous_height
    roads,            \* draw_simple_roads: the roads argument
    nodes,            \* draw_simple_roads: dict[OSMNode, set[RoadPart]]
    run,              \* which of two renders of the same input is running
    first,            \* the primitives of the first render
    arguments,        \* render_map: the command-line arguments
    boundary_box,     \* render_map: boundary_box
    input_file_names, \* render_map: input_file_names
    osm_data,         \* render_map: what the input files hold
    flinger,          \* render_map: the boundary the Flinger was built with
    output_file,      \* render_map: number of times the document was written
    exit_code,        \* render_map: how the run ended, None while it runs
    tags,             \* get_icon: the tag mapping, in insertion order
    icon              \* get_icon: the resolved IconSet

drawInputs == <<entry, constructor, configuration>>
pointVars == <<occupied, painted, attempts>>
roadVars == <<roads, nodes, run, first>>
renderVars == <<arguments, boundary_box, input_file_names, osm_data, flinger,
                output_file, exit_code>>
iconVars == <<tags, icon>>

vars == <<entry, pc, constructor, configuration, svg, i, occupied, painted,
          attempts, previous_height, roads, nodes, run, first, arguments,
          boundary_box, input_file_names, osm_data, flinger, output_file,
          exit_code, tags, icon>>

(***************************************************************************)
(* Bounds of the model.                                                    *)
(***************************************************************************)
MaxFigures == 2
MaxPoints == 2
MaxBuildings == 2
MaxHeight == 2
MaxCell == 2
MaxRoads == 2
MaxFiles == 1
MaxTags == 3

(***************************************************************************)
(* Program constants.                                                      *)
(***************************************************************************)
ROAD_PRIORITY == 40

Priorities == {ROAD_PRIORITY - 1, ROAD_PRIORITY, ROAD_PRIORITY + 1}
PointPriorities == {1, 2}
BuildingModes == {"no", "flat", "isometric", "isometric-no-parts"}
LabelModes == {"no", "main", "all"}
\* Optional[Occupied]: None, or the cells registered so far
NoOccupied == [enabled |-> FALSE, cells |-> {}]
NewOccupied == [enabled |-> TRUE, cells |-> {}]

(***************************************************************************)
(* Helpers: Python's sorted() is stable.                                   *)
(***************************************************************************)
Rank(keys, k) ==
    1 + Cardinality({j \in 1..Len(keys) :
                        \/ keys[j] < keys[k]
                        \/ keys[j] = keys[k] /\ j < k})

\* sorted(range(len(keys)), key=keys.__getitem__): the stable permutation
SortedIdx(keys) ==
    [r \in 1..Len(keys) |-> CHOOSE k \in 1..Len(keys) : Rank(keys, k) = r]

\* one primitive added to the drawing
Prim(kind, id, owner, a, b) ==
    [kind |-> kind, id |-> id, owner |-> owner, a |-> a, b |-> b]

Append2(s, cond, x) == IF cond THEN Append(s, x) ELSE s

RECURSIVE SetToSortedSeq(_)
\* sorted(set of numbers)
SetToSortedSeq(S) ==
    IF S = {} THEN <<>>
    ELSE LET m == CHOOSE x \in S : \A y \in S : x <= y
         IN  <<m>> \o SetToSortedSeq(S \ {m})

\* the keys of a dict filled from s, in insertion order: a key stays where
\* its first insertion put it
Dedup(s) ==
    LET firsts == SetToSortedSeq({k \in 1..Len(s) :
                                    \A j \in 1..(k - 1) : s[j] # s[k]})
    IN  [r \in 1..Len(firsts) |-> s[firsts[r]]]

RECURSIVE Flatten(_)
Flatten(ss) == IF ss = <<>> THEN <<>> ELSE Head(ss) \o Flatten(Tail(ss))

Range(s) == {s[k] : k \in 1..Len(s)}

\* the positions of svg holding a primitive of one kind (and id)
Pos(kind) == {k \in 1..Len(svg) : svg[k].kind = kind}
PosOf(kind, id) == {k \in 1..Len(svg) : svg[k].kind = kind /\ svg[k].id = id}


(***************************************************************************)
(* Map.draw: figures.                                                      *)
(***************************************************************************)
\* Constructor.get_sorted_figures: the figures by ascending priority, stable
get_sorted_figures ==
    LET fs == constructor.figures
        idx == SortedIdx([k \in 1..Len(fs) |-> fs[k].priority])
    IN  [r \in 1..Len(fs) |->
            [priority |-> fs[idx[r]].priority, path |-> fs[idx[r]].path,
             id |-> r]]

\* mutant: the threshold itself is left out of the top group
IsTopStrict(x) == x.priority > ROAD_PRIORITY

IsTop(x) == x.priority >= ROAD_PRIORITY

\* mutant: the threshold itself is taken into the bottom group as well
IsBottomInclusive(x) == x.priority <= ROAD_PRIORITY

IsBottom(x) == x.priority < ROAD_PRIORITY

top_figures == SelectSeq(get_sorted_figures, IsTop)
bottom_figures == SelectSeq(get_sorted_figures, IsBottom)

\* the body of both figure loops: a path is added when get_path is not empty
AddFigure(s, figure) ==
    Append2(s, figure.path # "", Prim("figure", figure.id, 0, 0, 0))

DrawBackground ==
    /\ pc = "start"
    /\ svg' = Append(svg, Prim("background", 0, 0, 0, 0))
    /\ pc' = "bottom" /\ i' = 1
    /\ UNCHANGED <<drawInputs, previous_height, pointVars, roadVars,
                   renderVars, iconVars>>

DrawBottomFigure ==
    /\ pc = "bottom" /\ i <= Len(bottom_figures)
    /\ svg' = AddFigure(svg, bottom_figures[i])
    /\ i' = i + 1
    /\ UNCHANGED <<drawInputs, pc, previous_height, pointVars, roadVars,
                   renderVars, iconVars>>

\* constructor.roads.draw(self.svg, self.flinger)
DrawRoads ==
    /\ pc = "bottom" /\ i > Len(bottom_figures)
    /\ svg' = Append(svg, Prim("roads", 0, 0, 0, 0))
    /\ pc' = "top" /\ i' = 1
    /\ UNCHANGED <<drawInputs, previous_height, pointVars, roadVars,
                   renderVars, iconVars>>

DrawTopFigure ==
    /\ pc = "top" /\ i <= Len(top_figures)
    /\ svg' = AddFigure(svg, top_figures[i])
    /\ i' = i + 1
    /\ UNCHANGED <<drawInputs, pc, previous_height, pointVars, roadVars,
                   renderVars, iconVars>>

DrawTrees ==
    /\ pc = "top" /\ i > Len(top_figures)
    /\ svg' = svg \o [k \in 1..constructor.trees |-> Prim("tree", k, 0, 0, 0)]
    /\ pc' = "craters"
    /\ UNCHANGED <<drawInputs, i, previous_height, pointVars, roadVars,
                   renderVars, iconVars>>

DrawCraters ==
    /\ pc = "craters"
    /\ svg' = svg \o
            [k \in 1..constructor.craters |-> Prim("crater", k, 0, 0, 0)]
    /\ pc' = "buildings"
    /\ UNCHANGED <<drawInputs, i, previous_height, pointVars, roadVars,
                   renderVars, iconVars>>

(***************************************************************************)
(* Map.draw_buildings.                                                     *)
(***************************************************************************)
buildings == constructor.buildings

\* Segment.__lt__ compares the segments' height on the plane; two distinct
\* segments may compare equal
SegmentY(segment) == (segment + 1) \div 2

\* walls: dict[Segment, Building], keys in insertion order
walls_keys ==
    Dedup(Flatten([b \in 1..Len(buildings) |-> buildings[b].parts]))

\* walls[part] = building: the last building that has the part owns it
walls(wall) ==
    CHOOSE b \in 1..Len(buildings) :
        /\ wall \in Range(buildings[b].parts)
        /\ \A c \in (b + 1)..Len(buildings) : wall \notin Range(buildings[c].parts)

sorted_walls ==
    LET keys == walls_keys
        ys == [k \in 1..Len(keys) |-> SegmentY(keys[k])]
        idx == SortedIdx(ys)
    IN  [r \in 1..Len(keys) |-> keys[idx[r]]]

sorted_heights == SetToSortedSeq(constructor.heights)

\* mutant: a building also gets a wall in the slice of its minimum height
SkipWallAboveMinimum(building, height) ==
    building.height < height \/ building.min_height > height

\* the condition of the continue statement in the wall loop
SkipWall(building, height) ==
    building.height < height \/ building.min_height >= height

\* the wall loop of one slice
SliceWalls(height, previous) ==
    LET Drawn(wall) == ~SkipWall(buildings[walls(wall)], height)
        ws == SelectSeq(sorted_walls, Drawn)
    IN  [k \in 1..Len(ws) |-> Prim("wall", ws[k], walls(ws[k]), previous, height)]

\* mutant: the roof is drawn in every slice up to the building's height
HasRoofUpTo(building, height) == building.height >= height

\* the condition of the roof loop
HasRoofAt(building, height) == building.height = height

\* the roof loop of one slice
SliceRoofs(height) ==
    LET bs == SelectSeq([b \in 1..Len(buildings) |-> b],
                        LAMBDA b : HasRoofAt(buildings[b], height))
    IN  IF configuration.draw_roofs
        THEN [k \in 1..Len(bs) |-> Prim("roof", bs[k], bs[k], height, 0)]
        ELSE <<>>

AfterBuildings == IF entry = "draw_buildings" THEN "done" ELSE "sectors"

DrawBuildingsNo ==
    /\ pc = "buildings"
    /\ configuration.building_mode = "no"
    /\ pc' = AfterBuildings
    /\ UNCHANGED <<drawInputs, svg, i, previous_height, pointVars, roadVars,
                   renderVars, iconVars>>

\* mutant: the flat branch does not return and goes on to the extrusion
DrawBuildingsFlatNoReturn ==
    /\ pc = "buildings"
    /\ configuration.building_mode = "flat"
    /\ svg' = (svg \o [b \in 1..Len(buildings) |-> Prim("flat", b, b, 0, 0)])
                \o <<Prim("shade", 0, 0, Len(buildings), 0)>>
    /\ previous_height' = 0
    /\ i' = 1
    /\ pc' = IF sorted_heights = <<>> THEN AfterBuildings ELSE "slices"
    /\ UNCHANGED <<drawInputs, pointVars, roadVars, renderVars, iconVars>>

DrawBuildingsFlat ==
    /\ pc = "buildings"
    /\ configuration.building_mode = "flat"
    /\ svg' = svg \o [b \in 1..Len(buildings) |-> Prim("flat", b, b, 0, 0)]
    /\ pc' = AfterBuildings
    /\ UNCHANGED <<drawInputs, i, previous_height, pointVars, roadVars,
                   renderVars, iconVars>>

\* the shade group, the walls dict and the start of the slice loop
DrawBuildingShade ==
    /\ pc = "buildings"
    /\ configuration.building_mode \notin {"no", "flat"}
    /\ svg' = Append(svg, Prim("shade", 0, 0, Len(buildings), 0))
    /\ previous_height' = 0
    /\ i' = 1
    /\ pc' = IF sorted_heights = <<>> THEN AfterBuildings ELSE "slices"
    /\ UNCHANGED <<drawInputs, pointVars, roadVars, renderVars, iconVars>>

\* one iteration of `for height in sorted(constructor.heights)`
DrawSlice ==
    /\ pc = "slices" /\ i <= Len(sorted_heights)
    /\ LET height == sorted_heights[i]
       IN  /\ svg' = svg \o SliceWalls(height, previous_height)
                         \o SliceRoofs(height)
           /\ previous_height' = height
    /\ i' = i + 1
    /\ pc' = IF i = Len(sorted_heights) THEN AfterBuildings ELSE "slices"
    /\ UNCHANGED <<drawInputs, pointVars, roadVars, renderVars, iconVars>>

DrawBuildings ==
    \/ DrawBuildingsNo
    \/ DrawBuildingsFlat
    \/ DrawBuildingShade
    \/ DrawSlice

(***************************************************************************)
(* Map.draw: direction sectors, icons, labels, credits.                    *)
(***************************************************************************)
points == constructor.points

DrawDirectionSectors ==
    /\ pc = "sectors"
    /\ svg' = svg \o [k \in 1..constructor.direction_sectors |->
                        Prim("sector", k, 0, 0, 0)]
    /\ pc' = "occupied"
    /\ UNCHANGED <<drawInputs, i, previous_height, pointVars, roadVars,
                   renderVars, iconVars>>

CreateOccupied ==
    /\ pc = "occupied"
    /\ occupied' = IF configuration.overlap = 0 THEN NoOccupied ELSE NewOccupied
    /\ painted' = [p \in 1..Len(points) |-> FALSE]
    /\ pc' = "main" /\ i' = 1
    /\ UNCHANGED <<drawInputs, svg, attempts, previous_height, roadVars,
                   renderVars, iconVars>>

\* mutant: the points are sorted by ascending priority
PointKeyAscending(point) == point.priority

\* nodes = sorted(constructor.points, key=lambda x: -x.priority), as indices
PointKey(point) == -point.priority

sorted_points == SortedIdx([p \in 1..Len(points) |-> PointKey(points[p])])

\* Occupied.check
Check(occ, cell) == occ.enabled /\ cell \in occ.cells

\* Occupied.register
Register(occ, cell) ==
    IF occ.enabled THEN [occ EXCEPT !.cells = @ \cup {cell}] ELSE occ

MainCell(point) == point.position
ExtraCell(point) == point.position + 1
TextCell(point) == point.position + 2

\* one placement attempt: what was tried, for which point, in which cell, whether
\* it was drawn, and how many primitives the scene held at that moment
Attempt(kind, p, cell, ok) ==
    [kind |-> kind, point |-> p, cell |-> cell, ok |-> ok, at |-> Len(svg)]

\* Point.draw_main_shapes
DrawMainShapes ==
    /\ pc = "main" /\ i <= Len(points)
    /\ LET p == sorted_points[i]
           cell == MainCell(points[p])
           ok == ~Check(occupied, cell)
       IN  /\ attempts' = Append(attempts, Attempt("main", p, cell, ok))
           /\ svg' = Append2(svg, ok, Prim("main_icon", p, 0, cell, 0))
           /\ occupied' = IF ok THEN Register(occupied, cell) ELSE occupied
           /\ painted' = [painted EXCEPT ![p] = ok]
    /\ i' = i + 1
    /\ UNCHANGED <<drawInputs, pc, previous_height, roadVars, renderVars,
                   iconVars>>

StartExtraIcons ==
    /\ pc = "main" /\ i > Len(points)
    /\ pc' = "extra" /\ i' = 1
    /\ UNCHANGED <<drawInputs, svg, previous_height, pointVars, roadVars,
                   renderVars, iconVars>>

\* Point.draw_extra_shapes
DrawExtraShapes ==
    /\ pc = "extra" /\ i <= Len(points)
    /\ LET p == sorted_points[i]
           cell == ExtraCell(points[p])
           ok == /\ points[p].extras > 0
                 /\ painted[p]
                 /\ ~Check(occupied, cell)
       IN  /\ attempts' = Append(attempts, Attempt("extra", p, cell, ok))
           /\ svg' = Append2(svg, ok, Prim("extra_icon", p, 0, cell, 0))
           /\ occupied' = IF ok THEN Register(occupied, cell) ELSE occupied
    /\ i' = i + 1
    /\ UNCHANGED <<drawInputs, pc, painted, previous_height, roadVars,
                   renderVars, iconVars>>

StartTexts ==
    /\ pc = "extra" /\ i > Len(points)
    /\ pc' = "texts" /\ i' = 1
    /\ UNCHANGED <<drawInputs, svg, previous_height, pointVars, roadVars,
                   renderVars, iconVars>>

\* mutant: the wireframe setting does not switch the labels off
LabelsEnabledInWireframe == configuration.label_mode # "no"

\* the condition of the text loop
LabelsEnabled ==
    ~configuration.wireframe /\ configuration.label_mode # "no"

\* Point.draw_texts places labels for a point whose icon was drawn
HasLabels(p) == painted[p]

\* the body of the text loop: Point.draw_texts when labels are enabled
DrawTexts ==
    /\ pc = "texts" /\ i <= Len(points)
    /\ LET p == sorted_points[i]
           cell == TextCell(points[p])
           ok == ~Check(occupied, cell)
       IN  IF LabelsEnabled /\ HasLabels(p)
           THEN /\ attempts' = Append(attempts, Attempt("text", p, cell, ok))
                /\ svg' = Append2(svg, ok, Prim("text", p, 0, cell, 0))
                /\ occupied' = IF ok THEN Register(occupied, cell) ELSE occupied
           ELSE UNCHANGED <<attempts, svg, occupied>>
    /\ i' = i + 1
    /\ UNCHANGED <<drawInputs, pc, painted, previous_height, roadVars,
                   renderVars, iconVars>>

\* draw_credits: every credit line is drawn twice (outline, then text)
credit_list ==
    <<"Rendering">> \o (IF configuration.credit # "" THEN <<"Data">> ELSE <<>>)

DrawCredits ==
    /\ pc = "texts" /\ i > Len(points)
    /\ svg' = svg \o Flatten([k \in 1..Len(credit_list) |->
                  <<Prim("credit", k, 0, 3, 0), Prim("credit", k, 0, 1, 0)>>])
    /\ pc' = IF entry = "render_map" THEN "write" ELSE "done"
    /\ UNCHANGED <<drawInputs, i, previous_height, pointVars, roadVars,
                   renderVars, iconVars>>

Draw ==
    \/ DrawBackground
    \/ DrawBottomFigure
    \/ DrawRoads
    \/ DrawTopFigure
    \/ DrawTrees
    \/ DrawCraters
    \/ DrawBuildings
    \/ DrawDirectionSectors
    \/ CreateOccupied
    \/ DrawMainShapes
    \/ StartExtraIcons
    \/ DrawExtraShapes
    \/ StartTexts
    \/ DrawTexts
    \/ DrawCredits

(***************************************************************************)
(* Map.draw_simple_roads.                                                  *)
(***************************************************************************)
\* OSMNode.coordinates: (latitude, longitude) of a node
Coordinates(node) == <<(node + 1) \div 2, node>>

\* Flinger.fling: longitude to x, latitude to y (north is up)
fling(coordinates) == <<16 * coordinates[2], 0 - 16 * coordinates[1]>>

\* Flinger.get_scale: the local scale depends on the latitude
get_scale(coordinates) == 1 + coordinates[1]

\* RoadPart(point_1, point_2, lanes, scale); every call makes a new object
RoadPart(object, point_1, point_2, lanes, scale) ==
    [object |-> object, point_1 |-> point_1, point_2 |-> point_2,
     lanes |-> lanes, scale |-> scale]

EmptyNodes == [keys |-> <<>>, parts |-> <<>>]

\* nodes[node], or the empty set before the node is entered
PartsAt(dict, node) ==
    IF \E k \in 1..Len(dict.keys) : dict.keys[k] = node
    THEN dict.parts[CHOOSE k \in 1..Len(dict.keys) : dict.keys[k] = node]
    ELSE {}

\* if node not in nodes: nodes[node] = set()
Enter(dict, node) ==
    IF \E k \in 1..Len(dict.keys) : dict.keys[k] = node THEN dict
    ELSE [keys |-> Append(dict.keys, node), parts |-> Append(dict.parts, {})]

\* nodes[node].add(part)
AddPart(dict, node, part) ==
    LET k == CHOOSE j \in 1..Len(dict.keys) : dict.keys[j] = node
    IN  [dict EXCEPT !.parts[k] = @ \cup {part}]

\* the body of `for index in range(len(road.nodes) - 1)`
AddSegment(dict, r, index) ==
    LET road == roads[r]
        node_1 == road.nodes[index]
        node_2 == road.nodes[index + 1]
        point_1 == fling(Coordinates(node_1))
        point_2 == fling(Coordinates(node_2))
        scale == get_scale(Coordinates(node_1))
        part_1 == RoadPart(<<r, index, 1>>, point_1, point_2, road.lanes, scale)
        part_2 == RoadPart(<<r, index, 2>>, point_2, point_1, road.lanes, scale)
        entered == Enter(Enter(dict, node_1), node_2)
    IN  AddPart(AddPart(entered, node_1, part_1), node_2, part_2)

RECURSIVE AddSegments(_, _, _)
\* the segments 1..index of road r, in order
AddSegments(dict, r, index) ==
    IF index = 0 THEN dict
    ELSE AddSegment(AddSegments(dict, r, index - 1), r, index)

RECURSIVE Orders(_)
\* list(parts): the elements of a set of objects in any order
Orders(S) ==
    IF S = {} THEN {<<>>}
    ELSE UNION {{<<x>> \o order : order \in Orders(S \ {x})} : x \in S}

\* mutant: three half-edges are enough for a junction
TooFewPartsBelowThree(parts) == Cardinality(parts) < 3

\* if len(parts) < 4: continue
TooFewParts(parts) == Cardinality(parts) < 4

RegisterRoad ==
    /\ pc = "register" /\ i <= Len(roads)
    /\ nodes' = AddSegments(nodes, i, Len(roads[i].nodes) - 1)
    /\ i' = i + 1
    /\ UNCHANGED <<drawInputs, pc, svg, previous_height, pointVars, roads, run,
                   first, renderVars, iconVars>>

FinishRegister ==
    /\ pc = "register" /\ i > Len(roads)
    /\ pc' = "intersections" /\ i' = 1
    /\ UNCHANGED <<drawInputs, svg, previous_height, pointVars, roadVars,
                   renderVars, iconVars>>

SkipNode ==
    /\ pc = "intersections" /\ i <= Len(nodes.keys)
    /\ TooFewParts(nodes.parts[i])
    /\ i' = i + 1
    /\ UNCHANGED <<drawInputs, pc, svg, previous_height, pointVars, roadVars,
                   renderVars, iconVars>>

\* Intersection(list(parts)).draw(self.svg, True)
DrawIntersection ==
    /\ pc = "intersections" /\ i <= Len(nodes.keys)
    /\ ~TooFewParts(nodes.parts[i])
    /\ \E order \in Orders(nodes.parts[i]) :
          svg' = Append(svg, Prim("intersection", nodes.keys[i], 0, order, 0))
    /\ i' = i + 1
    /\ UNCHANGED <<drawInputs, pc, previous_height, pointVars, roadVars,
                   renderVars, iconVars>>

FinishRoads ==
    /\ pc = "intersections" /\ i > Len(nodes.keys)
    /\ pc' = "done"
    /\ UNCHANGED <<drawInputs, svg, i, previous_height, pointVars, roadVars,
                   renderVars, iconVars>>

DrawSimpleRoads ==
    \/ RegisterRoad
    \/ FinishRegister
    \/ SkipNode
    \/ DrawIntersection
    \/ FinishRoads

\* the same roads are rendered a second time by a fresh run
Rerun ==
    /\ entry = "draw_simple_roads" /\ pc = "done" /\ run = 1
    /\ first' = svg
    /\ svg' = <<>>
    /\ nodes' = EmptyNodes
    /\ run' = 2
    /\ pc' = "register" /\ i' = 1
    /\ UNCHANGED <<drawInputs, previous_height, pointVars, roads, renderVars,
                   iconVars>>

(***************************************************************************)
(* The inputs of the entry points, from bounded sets.                      *)
(***************************************************************************)
SeqsUpTo(S, n) == UNION {[1..k -> S] : k \in 0..n}

FigureValues == [priority : Priorities, path : {"", "M 0,0 L 1,1"}]
PointValues ==
    [priority : PointPriorities, position : 1..MaxCell, extras : {0, 1}]
\* the wall segments of a building: segments 1 and 2 lie at the same y and
\* segment 3 further down; two buildings with the same parts share them
PartValues == {<<1>>, <<3, 2>>}
\* a building: height >= min_height >= 0
BuildingValues ==
    UNION {{[height |-> h, min_height |-> m, parts |-> ps] :
               m \in 0..h, ps \in PartValues} : h \in 0..MaxHeight}
BuildingSeqs == SeqsUpTo(BuildingValues, MaxBuildings)

\* Constructor.add_building collects the heights of the buildings
BuildingHeights(bs) == {bs[b].height : b \in 1..Len(bs)}
MinHeights(bs) == {bs[b].min_height : b \in 1..Len(bs)}

IdlePoints == occupied = NoOccupied /\ painted = <<>> /\ attempts = <<>>
IdleRoads == roads = <<>> /\ nodes = EmptyNodes /\ run = 1 /\ first = <<>>
NoArguments ==
    [boundary_box |-> "", coordinates |-> <<>>, size |-> <<>>,
     input_file_names |-> <<>>, network |-> FALSE]
NoData == [view_box |-> "None", boundary_box |-> "None", parsed |-> <<>>]
NoFlinger == [geo_boundaries |-> "not created"]
IdleRender ==
    /\ arguments = NoArguments /\ boundary_box = "None"
    /\ input_file_names = <<>> /\ osm_data = NoData /\ flinger = NoFlinger
    /\ output_file = 0 /\ exit_code = "None"
IdleIcons ==
    /\ tags = <<>>
    /\ icon = [main_icon |-> <<>>, extra_icons |-> <<>>]

SampleBuildings == <<[height |-> 1, min_height |-> 0, parts |-> <<1>>]>>
SampleFigures ==
    <<[priority |-> ROAD_PRIORITY + 1, path |-> "M 0,0 L 1,1"],
      [priority |-> ROAD_PRIORITY - 1, path |-> "M 0,0 L 1,1"]>>
SamplePoints == <<[priority |-> 1, position |-> 1, extras |-> 1]>>


(***************************************************************************)
(* render_map.                                                             *)
(***************************************************************************)
None == "None"

RECURSIVE Split(_, _)
\* str.split(delimiter) on a text given as a sequence of tokens
Split(text, delimiter) ==
    IF \A k \in 1..Len(text) : text[k] # delimiter THEN <<text>>
    ELSE LET k == CHOOSE j \in 1..Len(text) :
                     /\ text[j] = delimiter
                     /\ \A h \in 1..(j - 1) : text[h] # delimiter
         IN  <<SubSeq(text, 1, k - 1)>>
                 \o Split(SubSeq(text, k + 1, Len(text)), delimiter)

Contains(text, delimiter) == \E k \in 1..Len(text) : text[k] = delimiter

\* float(piece) succeeds on a piece that is one number
IsFloat(piece) == Len(piece) = 1 /\ piece[1] \notin {",", "/"}

\* list(map(float, text.split(delimiter))): the pieces, or a ValueError
Floats(text, delimiter) ==
    LET pieces == Split(text, delimiter)
    IN  IF \A k \in 1..Len(pieces) : IsFloat(pieces[k]) THEN pieces
        ELSE "ValueError"

RECURSIVE ParseCoordinates(_, _, _)
\* the loop `for delimiter in ",", "/"` over the coordinates argument
ParseCoordinates(text, delimiters, coordinates) ==
    IF delimiters = <<>> THEN coordinates
    ELSE IF Contains(text, Head(delimiters))
         THEN LET parsed == Floats(text, Head(delimiters))
              IN  IF parsed = "ValueError" THEN parsed
                  ELSE ParseCoordinates(text, Tail(delimiters), parsed)
         ELSE ParseCoordinates(text, Tail(delimiters), coordinates)

\* BoundaryBox.from_text: None when the text is no boundary box
from_text(text) == IF text = "good" THEN "box of --boundary-box" ELSE None

Exit(code) ==
    /\ pc' = "exit"
    /\ exit_code' = code

\* lines 265-293: the boundary box from the arguments
ComputeBoundaryBox ==
    /\ pc = "render"
    /\ UNCHANGED <<drawInputs, svg, i, previous_height, pointVars, roadVars,
                   arguments, input_file_names, osm_data, flinger, output_file,
                   iconVars>>
    /\ IF arguments.boundary_box # ""
       THEN /\ boundary_box' = from_text(arguments.boundary_box)
            /\ pc' = "files"
            /\ UNCHANGED exit_code
       ELSE IF arguments.coordinates # <<>> /\ arguments.size # <<>>
       THEN LET coordinates ==
                    ParseCoordinates(arguments.coordinates, <<",", "/">>, None)
                size == Floats(arguments.size, ",")
            IN  IF coordinates = "ValueError"
                THEN Exit("exception") /\ UNCHANGED boundary_box
                ELSE IF coordinates = None \/ Len(coordinates) # 2
                THEN Exit("1") /\ UNCHANGED boundary_box
                ELSE IF size = "ValueError" \/ Len(size) # 2
                THEN Exit("exception") /\ UNCHANGED boundary_box
                ELSE /\ boundary_box' = "box of --coordinates"
                     /\ pc' = "files"
                     /\ UNCHANGED exit_code
       ELSE /\ pc' = "files"
            /\ UNCHANGED <<boundary_box, exit_code>>

\* if arguments.input_file_names
UseInputFiles ==
    /\ pc = "files"
    /\ arguments.input_file_names # <<>>
    /\ input_file_names' = arguments.input_file_names
    /\ pc' = "parse" /\ i' = 1
    /\ UNCHANGED <<drawInputs, svg, previous_height, pointVars, roadVars,
                   arguments, boundary_box, osm_data, flinger, output_file,
                   exit_code, iconVars>>

\* the file get_osm stores in the cache: the data inside the boundary box
DownloadedFile ==
    [is_file |-> TRUE, json |-> FALSE, view_box |-> "bounds of the file",
     boundary_box |-> "extent of the nodes"]

\* elif boundary_box: get_osm succeeds
DownloadData ==
    /\ pc = "files"
    /\ arguments.input_file_names = <<>>
    /\ boundary_box # None
    /\ arguments.network
    /\ input_file_names' = <<DownloadedFile>>
    /\ pc' = "parse" /\ i' = 1
    /\ UNCHANGED <<drawInputs, svg, previous_height, pointVars, roadVars,
                   arguments, boundary_box, osm_data, flinger, output_file,
                   exit_code, iconVars>>

\* except NetworkError: logging.fatal, sys.exit(1)
DownloadFails ==
    /\ pc = "files"
    /\ arguments.input_file_names = <<>>
    /\ boundary_box # None
    /\ ~arguments.network
    /\ Exit("1")
    /\ UNCHANGED <<drawInputs, svg, i, previous_height, pointVars, roadVars,
                   arguments, boundary_box, input_file_names, osm_data, flinger,
                   output_file, iconVars>>

\* else: fatal("Specify either --input, or --boundary-box, ...")
NoInputFatal ==
    /\ pc = "files"
    /\ arguments.input_file_names = <<>>
    /\ boundary_box = None
    /\ Exit("1")
    /\ UNCHANGED <<drawInputs, svg, i, previous_height, pointVars, roadVars,
                   arguments, boundary_box, input_file_names, osm_data, flinger,
                   output_file, iconVars>>

\* if not input_file_name.is_file(): logging.fatal, sys.exit(1)
MissingFile ==
    /\ pc = "parse" /\ i <= Len(input_file_names)
    /\ ~input_file_names[i].is_file
    /\ Exit("1")
    /\ UNCHANGED <<drawInputs, svg, i, previous_height, pointVars, roadVars,
                   arguments, boundary_box, input_file_names, osm_data, flinger,
                   output_file, iconVars>>

\* what a parsed file adds to the OSMData: the declared bounds become the
\* view box, the extent of the nodes is kept as the boundary box
Parsed(data, file) ==
    [view_box |-> IF file.view_box # None THEN file.view_box
                  ELSE data.view_box,
     boundary_box |-> IF file.boundary_box # None THEN file.boundary_box
                      ELSE data.boundary_box,
     parsed |-> Append(data.parsed,
                       IF file.json THEN "parse_overpass" ELSE "parse_osm_file")]

\* osm_data.parse_overpass / osm_data.parse_osm_file
ParseFile ==
    /\ pc = "parse" /\ i <= Len(input_file_names)
    /\ input_file_names[i].is_file
    /\ osm_data' = Parsed(osm_data, input_file_names[i])
    /\ i' = i + 1
    /\ UNCHANGED <<drawInputs, pc, svg, previous_height, pointVars, roadVars,
                   arguments, boundary_box, input_file_names, flinger,
                   output_file, exit_code, iconVars>>

\* lines 328-331: the boundary box falls back to the data
FallBack(box, data) ==
    LET viewed == IF box = None THEN data.view_box ELSE box
    IN  IF viewed = None THEN data.boundary_box ELSE viewed

\* lines 328-338: Flinger(boundary_box, ...); a Flinger cannot compute its
\* size from None and raises
CreateFlinger ==
    /\ pc = "parse" /\ i > Len(input_file_names)
    /\ boundary_box' = FallBack(boundary_box, osm_data)
    /\ flinger' = [geo_boundaries |-> boundary_box']
    /\ IF boundary_box' = None
       THEN Exit("exception")
       ELSE pc' = "construct" /\ UNCHANGED exit_code
    /\ UNCHANGED <<drawInputs, svg, i, previous_height, pointVars, roadVars,
                   arguments, input_file_names, osm_data, output_file,
                   iconVars>>

\* the drawable set the Constructor builds from the parsed data
Constructed ==
    [figures |-> SampleFigures, trees |-> 1, craters |-> 1,
     direction_sectors |-> 1, buildings |-> SampleBuildings,
     heights |-> BuildingHeights(SampleBuildings), points |-> SamplePoints]

\* lines 340-357: the drawing, the scheme, constructor.construct(), Map(...)
Construct ==
    /\ pc = "construct"
    /\ constructor' = Constructed
    /\ svg' = <<>>
    /\ pc' = "start"
    /\ UNCHANGED <<entry, configuration, i, previous_height, pointVars,
                   roadVars, renderVars, iconVars>>

\* lines 360-362: svg.write(output_file)
WriteOutput ==
    /\ pc = "write"
    /\ output_file' = output_file + 1
    /\ pc' = "done"
    /\ exit_code' = "0"
    /\ UNCHANGED <<drawInputs, svg, i, previous_height, pointVars, roadVars,
                   arguments, boundary_box, input_file_names, osm_data, flinger,
                   iconVars>>

RenderMap ==
    \/ ComputeBoundaryBox
    \/ UseInputFiles
    \/ DownloadData
    \/ DownloadFails
    \/ NoInputFatal
    \/ MissingFile
    \/ ParseFile
    \/ CreateFlinger
    \/ Construct
    \/ Draw
    \/ WriteOutput

(***************************************************************************)
(* Map.draw and Map.draw_buildings: initial states.                        *)
(***************************************************************************)
StartDraw ==
    /\ entry = "draw" /\ pc = "start" /\ svg = <<>> /\ i = 1
    /\ previous_height = 0
    /\ IdlePoints /\ IdleRoads /\ IdleRender /\ IdleIcons

\* Map.draw on many figure lists
InitFigures ==
    /\ StartDraw
    /\ \E fs \in SeqsUpTo(FigureValues, MaxFigures), t \in 0..1, c \in 0..1,
          ps \in {<<>>, SamplePoints} :
          constructor = [figures |-> fs, trees |-> t, craters |-> c,
                         direction_sectors |-> 1, buildings |-> SampleBuildings,
                         heights |-> BuildingHeights(SampleBuildings),
                         points |-> ps]
    /\ \E m \in {"no", "flat", "isometric"} :
          configuration = [overlap |-> 12, label_mode |-> "main",
                           wireframe |-> FALSE, building_mode |-> m,
                           draw_roofs |-> TRUE, credit |-> ""]

\* the label settings: enabled, or disabled by the mode or by wireframe
LabelSettings ==
    {<<"no", FALSE>>, <<"main", FALSE>>, <<"all", FALSE>>, <<"main", TRUE>>}

\* Map.draw on many point lists
InitPoints ==
    /\ StartDraw
    /\ \E ps \in SeqsUpTo(PointValues, MaxPoints) :
          constructor = [figures |-> SampleFigures, trees |-> 1, craters |-> 1,
                         direction_sectors |-> 1, buildings |-> SampleBuildings,
                         heights |-> BuildingHeights(SampleBuildings),
                         points |-> ps]
    /\ \E o \in {0, 12}, l \in LabelSettings :
          configuration = [overlap |-> o, label_mode |-> l[1],
                           wireframe |-> l[2], building_mode |-> "isometric",
                           draw_roofs |-> TRUE, credit |-> "OpenStreetMap"]

Init == InitFigures \/ InitPoints

Next == Draw

Spec == Init /\ [][Next]_vars

\* the building settings <<mode, draw_roofs, minimum heights collected>>: the
\* extruded modes with and without roofs, and the two modes without extrusion
BuildingSettings ==
    {<<"isometric", TRUE, FALSE>>, <<"isometric", TRUE, TRUE>>,
     <<"isometric", FALSE, TRUE>>, <<"isometric-no-parts", TRUE, FALSE>>,
     <<"flat", TRUE, FALSE>>, <<"no", TRUE, FALSE>>}

\* Map.draw_buildings on many building lists; the height set holds the
\* heights of the buildings, with or without their minimum heights
InitBuildings ==
    /\ entry = "draw_buildings" /\ pc = "buildings" /\ svg = <<>> /\ i = 1
    /\ previous_height = 0
    /\ IdlePoints /\ IdleRoads /\ IdleRender /\ IdleIcons
    /\ \E bs \in BuildingSeqs, m \in BuildingSettings :
          /\ constructor = [figures |-> <<>>, trees |-> 0, craters |-> 0,
                            direction_sectors |-> 0, buildings |-> bs,
                            heights |-> BuildingHeights(bs) \cup
                                (IF m[3] THEN MinHeights(bs) ELSE {}),
                            points |-> <<>>]
          /\ configuration = [overlap |-> 0, label_mode |-> "no",
                              wireframe |-> FALSE, building_mode |-> m[1],
                              draw_roofs |-> m[2], credit |-> ""]

SpecBuildings == InitBuildings /\ [][DrawBuildings]_vars

(***************************************************************************)
(* Properties of Map.draw.                                                 *)
(***************************************************************************)
FigurePriority(k) == get_sorted_figures[svg[k].id].priority
TopPos == {k \in Pos("figure") : FigurePriority(k) >= ROAD_PRIORITY}
BottomPos == {k \in Pos("figure") : FigurePriority(k) < ROAD_PRIORITY}
OverlayPos == Pos("tree") \cup Pos("crater")
BuildingPos == Pos("shade") \cup Pos("wall") \cup Pos("roof") \cup Pos("flat")
IconPos == Pos("main_icon") \cup Pos("extra_icon")

\* C1: when Map.draw has finished, every figure with a non-empty path is in
\* the scene exactly once, the road layer is there once, after every figure
\* of priority below ROAD_PRIORITY and before every figure of priority at or
\* above it, and inside each of the two groups the figures follow the order
\* of get_sorted_figures.
C1_FiguresAroundRoads ==
    pc = "done" =>
        /\ \A f \in 1..Len(get_sorted_figures) :
              get_sorted_figures[f].path # "" =>
                  Cardinality(PosOf("figure", f)) = 1
        /\ Cardinality(Pos("roads")) = 1
        /\ \A r \in Pos("roads") :
              /\ \A k \in BottomPos : k < r
              /\ \A k \in TopPos : r < k
        /\ \A k1, k2 \in BottomPos : k1 < k2 => svg[k1].id < svg[k2].id
        /\ \A k1, k2 \in TopPos : k1 < k2 => svg[k1].id < svg[k2].id

\* a finished scene with a figure below the threshold and one exactly at it
C1_Witness ==
    /\ pc = "done"
    /\ BottomPos # {}
    /\ \E k \in TopPos : FigurePriority(k) = ROAD_PRIORITY

\* C2 as stated: in the finished scene every figure of priority at or above
\* ROAD_PRIORITY comes after all trees and craters and after all building
\* primitives, and before any point icon.
C2_TopFiguresAfterBuildings ==
    pc = "done" =>
        \A k \in TopPos :
            /\ \A j \in OverlayPos \cup BuildingPos : j < k
            /\ \A j \in IconPos : k < j

\* C2 amended: in the finished scene every figure of priority at or above
\* ROAD_PRIORITY that has a path is present, and each such figure comes after
\* the road layer and before all trees, craters, building primitives and
\* point icons.
C2_TopFiguresBeforeOverlays ==
    pc = "done" =>
        /\ \A f \in 1..Len(get_sorted_figures) :
              (get_sorted_figures[f].priority >= ROAD_PRIORITY
                  /\ get_sorted_figures[f].path # "") =>
                      PosOf("figure", f) \cap TopPos # {}
        /\ \A k \in TopPos :
              /\ \A r \in Pos("roads") : r < k
              /\ \A j \in OverlayPos \cup BuildingPos \cup IconPos : k < j

\* a finished scene with a top figure, an overlay, a building and an icon
C2_Witness ==
    /\ pc = "done"
    /\ TopPos # {}
    /\ Pos("tree") # {} /\ Pos("crater") # {}
    /\ Pos("wall") # {}
    /\ IconPos # {}

AttemptsOf(kind) == {a \in 1..Len(attempts) : attempts[a].kind = kind}
IconAttempts == AttemptsOf("main") \cup AttemptsOf("extra")

\* C3: the icon passes run over the points by descending priority: of two
\* points the one of higher priority has its main icon attempted first and
\* its extra icons attempted first, every main attempt precedes every extra
\* attempt, both passes claim in one tracker (when it is enabled no two drawn
\* icons hold the same cell and the tracker holds exactly the cells of the
\* drawn icons and labels), and every icon that was drawn stays in the scene.
C3_IconPasses ==
    /\ \A a \in AttemptsOf("main"), b \in AttemptsOf("extra") : a < b
    /\ \A a, b \in IconAttempts :
          (/\ attempts[a].kind = attempts[b].kind
           /\ points[attempts[a].point].priority
                  > points[attempts[b].point].priority) => a < b
    /\ \A a, b \in IconAttempts :
          (a < b /\ occupied.enabled /\ attempts[a].ok /\ attempts[b].ok)
              => attempts[a].cell # attempts[b].cell
    /\ occupied.enabled =>
          occupied.cells = {attempts[a].cell :
                               a \in {b \in 1..Len(attempts) : attempts[b].ok}}
    /\ \A a \in IconAttempts :
          attempts[a].ok =>
              PosOf(IF attempts[a].kind = "main" THEN "main_icon"
                    ELSE "extra_icon", attempts[a].point) # {}
    /\ pc = "done" =>
          \A p \in 1..Len(points) :
              /\ Cardinality({a \in AttemptsOf("main") :
                                 attempts[a].point = p}) = 1
              /\ Cardinality({a \in AttemptsOf("extra") :
                                 attempts[a].point = p}) = 1

\* both passes done, the later point has the higher priority, one claim
\* failed against the cell of another point and one extra icon was drawn
C3_Witness ==
    /\ pc = "done"
    /\ Len(points) = 2
    /\ points[1].priority < points[2].priority
    /\ \E a, b \in IconAttempts :
          /\ a < b /\ attempts[a].ok /\ ~attempts[b].ok
          /\ attempts[a].point # attempts[b].point
          /\ attempts[a].cell = attempts[b].cell
    /\ \E a \in AttemptsOf("extra") : attempts[a].ok

\* the attempts made before attempt a that claimed a cell
ClaimsBefore(a) == {b \in 1..(a - 1) : attempts[b].ok}

\* label rendering is enabled: the label mode is not NO and the map is not
\* wireframe
LabelRendering ==
    configuration.label_mode \in {"main", "all"} /\ configuration.wireframe = FALSE

\* C11: a label placement is attempted for a point only if the point's main
\* icon was drawn and labels are enabled (label mode not NO, not wireframe);
\* every label attempt comes after every icon attempt and before the credit
\* overlay, the label attempts follow descending point priority, and they
\* claim in the tracker of the icons: a label is drawn exactly when its cell
\* is free of every earlier icon or label claim (or the tracker is off). When
\* the drawing is done and labels are enabled, each point with a drawn icon
\* has had its one attempt.
C11_LabelAttempts ==
    /\ \A a \in AttemptsOf("text") :
          /\ LabelRendering
          /\ \E b \in AttemptsOf("main") :
                b < a /\ attempts[b].point = attempts[a].point /\ attempts[b].ok
          /\ PosOf("main_icon", attempts[a].point) # {}
          /\ \A b \in IconAttempts : b < a
          /\ \A p \in 1..Len(points) :
                \E b \in AttemptsOf("extra") : b < a /\ attempts[b].point = p
          /\ \A c \in Pos("credit") : attempts[a].at < c
          /\ attempts[a].ok <=>
                ~(occupied.enabled /\
                  \E b \in ClaimsBefore(a) : attempts[b].cell = attempts[a].cell)
          /\ attempts[a].ok <=>
                \E k \in PosOf("text", attempts[a].point) : k = attempts[a].at + 1
    /\ \A a, b \in AttemptsOf("text") :
          points[attempts[a].point].priority
              > points[attempts[b].point].priority => a < b
    /\ \A k \in Pos("text") :
          \E a \in AttemptsOf("text") :
              attempts[a].ok /\ attempts[a].at + 1 = k
    /\ pc = "done" =>
          \A p \in 1..Len(points) :
              Cardinality({a \in AttemptsOf("text") : attempts[a].point = p})
                  = IF LabelRendering /\ painted[p] THEN 1 ELSE 0

\* the drawing is done with its credits; of two points the later one has the
\* higher priority, its label was drawn and the label of the other point was
\* refused because an icon holds its cell
C11_Witness ==
    /\ pc = "done"
    /\ Pos("credit") # {}
    /\ Len(points) = 2
    /\ points[1].priority < points[2].priority
    /\ \E a, b \in AttemptsOf("text") :
          /\ a < b /\ attempts[a].point = 2 /\ attempts[b].point = 1
          /\ attempts[a].ok /\ ~attempts[b].ok
          /\ \E c \in IconAttempts :
                attempts[c].ok /\ attempts[c].cell = attempts[b].cell

(***************************************************************************)
(* Properties of Map.draw_buildings.                                       *)
(***************************************************************************)
Extruded == configuration.building_mode \notin {"no", "flat"}

\* the pairs of consecutive slice heights
ConsecutiveHeights ==
    {<<sorted_heights[k], sorted_heights[k + 1]>> :
        k \in 1..(Len(sorted_heights) - 1)}

\* the segment is drawn as a wall spanning the band from h1 to h2
WallDrawn(segment, h1, h2) ==
    \E k \in PosOf("wall", segment) : svg[k].a = h1 /\ svg[k].b = h2

\* C4 as stated: in an extruded mode, for every building and all consecutive
\* slice heights h1 < h2 with min_height <= h1 and h2 <= height, every wall
\* segment of the building is drawn in slice h2 spanning the band h1..h2,
\* also when the segment is shared with another building.
C4_WallBandsCovered ==
    (pc = "done" /\ Extruded) =>
        \A b \in 1..Len(buildings), hh \in ConsecutiveHeights :
            (buildings[b].min_height <= hh[1] /\ hh[2] <= buildings[b].height)
                => \A segment \in Range(buildings[b].parts) :
                       WallDrawn(segment, hh[1], hh[2])

\* C9 as stated: in every non-extruded building mode each building is drawn
\* exactly once as a flat fill and no shade, wall or roof is emitted.
C9_FlatInEveryNonExtrudedMode ==
    (pc = "done" /\ ~Extruded) =>
        /\ \A b \in 1..Len(buildings) : Cardinality(PosOf("flat", b)) = 1
        /\ Pos("shade") \cup Pos("wall") \cup Pos("roof") = {}

\* C9 amended: in mode FLAT each building is drawn exactly once as a flat
\* fill, in mode NO no building primitive at all is emitted, and in neither
\* mode a shade, wall or roof is emitted.
C9_FlatOnlyInFlatMode ==
    (pc = "done" /\ ~Extruded) =>
        /\ configuration.building_mode = "flat" =>
              \A b \in 1..Len(buildings) : Cardinality(PosOf("flat", b)) = 1
        /\ configuration.building_mode = "no" => svg = <<>>
        /\ Pos("shade") \cup Pos("wall") \cup Pos("roof") = {}

\* flat mode has drawn two buildings that an extruded mode would give walls
C9_Witness ==
    /\ pc = "done"
    /\ configuration.building_mode = "flat"
    /\ Len(buildings) = 2
    /\ Cardinality(Pos("flat")) = 2
    /\ \A b \in 1..2 : buildings[b].height > buildings[b].min_height

\* the wall segments of all buildings, each geometric segment once
Segments == UNION {Range(buildings[b].parts) : b \in 1..Len(buildings)}

\* the building a segment belongs to in the segment-to-building mapping: of
\* the buildings that have it, the one added last
OwningBuilding(segment) ==
    LET having == {b \in 1..Len(buildings) : segment \in Range(buildings[b].parts)}
    IN  CHOOSE b \in having : \A c \in having : c <= b

\* the walls and roofs of the scene, and the slice each was drawn in
SlicePos == Pos("wall") \cup Pos("roof")
SliceOf(k) == IF svg[k].kind = "wall" THEN svg[k].b ELSE svg[k].a

\* the slice height before h, the ground before the first slice
PreviousSlice(h) ==
    LET below == {0} \cup {x \in constructor.heights : x < h}
    IN  CHOOSE x \in below : \A y \in below : y <= x

WallsIn(segment, h) == {k \in PosOf("wall", segment) : svg[k].b = h}

RoofInPlace(k) ==
    /\ svg[k].a = buildings[svg[k].id].height
    /\ \A w \in Pos("wall") :
          /\ svg[w].b <= svg[k].a => w < k
          /\ svg[w].b > svg[k].a => k < w

\* C13 as stated: in an extruded mode every building whose height is a slice
\* height has its roof drawn exactly once, in the slice of its height, after
\* the walls of that slice and before the walls of every higher slice.
C13_RoofAlwaysDrawn ==
    /\ Extruded => \A k \in Pos("roof") : RoofInPlace(k)
    /\ (pc = "done" /\ Extruded) =>
          \A b \in 1..Len(buildings) :
              buildings[b].height \in constructor.heights =>
                  Cardinality(PosOf("roof", b)) = 1

\* C13 amended: the same when roof drawing is enabled; when it is disabled no
\* roof is drawn at all.
C13_RoofDrawnWhenEnabled ==
    /\ Extruded => \A k \in Pos("roof") : RoofInPlace(k)
    /\ (pc = "done" /\ Extruded) =>
          \A b \in 1..Len(buildings) :
              buildings[b].height \in constructor.heights =>
                  Cardinality(PosOf("roof", b))
                      = IF configuration.draw_roofs THEN 1 ELSE 0

\* a lower and a taller building: the roof of the lower one follows a wall of
\* its own slice and precedes a wall the taller one draws in a later slice
C13_Witness ==
    /\ pc = "done" /\ Extruded /\ configuration.draw_roofs
    /\ Len(buildings) = 2
    /\ buildings[1].height < buildings[2].height
    /\ \E k \in PosOf("roof", 1), w1, w2 \in Pos("wall") :
          /\ w1 < k /\ k < w2
          /\ svg[w1].b = buildings[1].height
          /\ svg[w2].b = buildings[2].height /\ svg[w2].owner = 2
    /\ PosOf("roof", 2) # {}

(***************************************************************************)
(* Map.draw_simple_roads: initial states and properties.                   *)
(***************************************************************************)
\* ways over the nodes 1..4; only node 3 can have more than three half-edges
RoadValues ==
    {[nodes |-> <<1, 2>>, lanes |-> 1], [nodes |-> <<2, 3>>, lanes |-> 2],
     [nodes |-> <<3, 4>>, lanes |-> 1], [nodes |-> <<2, 3, 4>>, lanes |-> 2],
     [nodes |-> <<4, 3, 2>>, lanes |-> 1], [nodes |-> <<3, 3>>, lanes |-> 1]}

NoConstructor ==
    [figures |-> <<>>, trees |-> 0, craters |-> 0, direction_sectors |-> 0,
     buildings |-> <<>>, heights |-> {}, points |-> <<>>]
NoConfiguration ==
    [overlap |-> 0, label_mode |-> "no", wireframe |-> FALSE,
     building_mode |-> "no", draw_roofs |-> FALSE, credit |-> ""]

InitRoads ==
    /\ entry = "draw_simple_roads" /\ pc = "register" /\ svg = <<>> /\ i = 1
    /\ previous_height = 0
    /\ constructor = NoConstructor /\ configuration = NoConfiguration
    /\ roads \in SeqsUpTo(RoadValues, MaxRoads)
    /\ nodes = EmptyNodes /\ run = 1 /\ first = <<>>
    /\ IdlePoints /\ IdleRender /\ IdleIcons

SpecRoads == InitRoads /\ [][DrawSimpleRoads]_vars

SpecRoadsTwice == InitRoads /\ [][DrawSimpleRoads \/ Rerun]_vars

\* the half-edges the roads have at a node: one per segment end at the node
SegmentEnds ==
    UNION {{<<r, index, end>> :
               index \in 1..(Len(roads[r].nodes) - 1), end \in 1..2} :
           r \in 1..Len(roads)}

HalfEdgesAt(node) ==
    {e \in SegmentEnds : roads[e[1]].nodes[e[2] + e[3] - 1] = node}

RoadNodes == UNION {Range(roads[r].nodes) : r \in 1..Len(roads)}

\* C5: an Intersection is drawn for a node only if at least four half-edges
\* of the roads end at it; when draw_simple_roads has finished, no node with
\* three or fewer half-edges has an Intersection in the scene, and the
\* Intersection of a node holds exactly the half-edges registered there.
C5_JunctionNeedsFourHalfEdges ==
    /\ \A k \in Pos("intersection") :
          /\ Cardinality(HalfEdgesAt(svg[k].id)) >= 4
          /\ {svg[k].a[j].object : j \in 1..Len(svg[k].a)} = HalfEdgesAt(svg[k].id)
    /\ pc = "done" =>
          \A node \in RoadNodes :
              Cardinality(HalfEdgesAt(node)) <= 3 => PosOf("intersection", node) = {}

\* finished: a node with four half-edges has its Intersection, and a node
\* with fewer (but some) half-edges has none
C5_Witness ==
    /\ pc = "done"
    /\ \E node \in RoadNodes :
          Cardinality(HalfEdgesAt(node)) = 4 /\ PosOf("intersection", node) # {}
    /\ \E node \in RoadNodes :
          Cardinality(HalfEdgesAt(node)) \in 1..3 /\ PosOf("intersection", node) = {}

\* C6 as stated: two renders of the same input emit the same sequence of
\* primitives, including the order of the half-edges handed to a junction.
C6_SameSceneTwice ==
    (run = 2 /\ pc = "done") => svg = first

\* the node at the other end of the segment of a half-edge <<r, index, end>>
OtherEnd(e) == roads[e[1]].nodes[e[2] + 2 - e[3]]

\* C14 as stated: every half-edge registered at a node is a half-edge of a
\* road segment ending at that node, starts at the node's planar position,
\* points to the planar position of the segment's other end, and carries the
\* scale of the node it is registered at, for both ends of every segment.
C14_HalfEdgeOfItsNode ==
    \A k \in 1..Len(nodes.keys) :
        \A part \in nodes.parts[k] :
            /\ part.object \in HalfEdgesAt(nodes.keys[k])
            /\ part.point_1 = fling(Coordinates(nodes.keys[k]))
            /\ part.point_2 = fling(Coordinates(OtherEnd(part.object)))
            /\ part.scale = get_scale(Coordinates(nodes.keys[k]))

(***************************************************************************)
(* render_map: initial states and properties.                              *)
(***************************************************************************)
CoordinateTexts ==
    {<<>>, <<"55.7", ",", "37.6">>, <<"55.7", "/", "37.6">>, <<"55.7">>,
     <<"55.7", ",", "37.6", ",", "0">>, <<"55.7", ",", "37.6", "/", "0">>}
SizeTexts == {<<>>, <<"600", ",", "400">>, <<"600">>}

\* an input file: missing, or holding data with or without bounds and nodes
FileValues ==
    {[is_file |-> FALSE, json |-> FALSE, view_box |-> None,
      boundary_box |-> None]}
    \cup [is_file : {TRUE}, json : BOOLEAN,
          view_box : {None, "bounds of the file"},
          boundary_box : {None, "extent of the nodes"}]

InitRender ==
    /\ entry = "render_map" /\ pc = "render" /\ svg = <<>> /\ i = 1
    /\ previous_height = 0
    /\ constructor = NoConstructor
    /\ \E m \in {"no", "flat", "isometric"} :
          configuration = [overlap |-> 12, label_mode |-> "main",
                           wireframe |-> FALSE, building_mode |-> m,
                           draw_roofs |-> TRUE, credit |-> "OpenStreetMap"]
    /\ arguments \in [boundary_box : {"", "good", "bad"},
                      coordinates : CoordinateTexts, size : SizeTexts,
                      input_file_names : SeqsUpTo(FileValues, MaxFiles),
                      network : BOOLEAN]
    /\ boundary_box = None /\ input_file_names = <<>> /\ osm_data = NoData
    /\ flinger = NoFlinger /\ output_file = 0 /\ exit_code = None
    /\ IdlePoints /\ IdleRoads /\ IdleIcons

SpecRender == InitRender /\ [][RenderMap]_vars

\* no boundary box from the arguments and none in the data of the files
NoBoundary ==
    /\ arguments.boundary_box = "" \/ from_text(arguments.boundary_box) = None
    /\ arguments.coordinates = <<>> \/ arguments.size = <<>>
    /\ \A k \in 1..Len(arguments.input_file_names) :
          /\ arguments.input_file_names[k].view_box = None
          /\ arguments.input_file_names[k].boundary_box = None

\* C10 as stated: a Flinger is only ever built with a boundary box, a run in
\* which no boundary box can be determined ends as a fatal error (exit status
\* 1) before the Flinger, the scene or the output exist, and a run that ends
\* without error has written the output exactly once, after the credits.
C10_NoRenderWithoutBoundary ==
    /\ flinger # NoFlinger => flinger.geo_boundaries # None
    /\ (NoBoundary /\ pc \in {"exit", "done"}) =>
          /\ exit_code = "1"
          /\ flinger = NoFlinger /\ svg = <<>> /\ output_file = 0
    /\ output_file <= 1
    /\ output_file = 1 => Pos("credit") # {}
    /\ (pc = "done" /\ exit_code = "0") => output_file = 1

(***************************************************************************)
(* Scheme.get_icon, as tests/test_icons.py calls it.                       *)
(***************************************************************************)
DEFAULT_SHAPE_ID == "default"
DEFAULT_COLOR == "#444444"
EXTRA_COLOR == "#888888"

\* Color(text): a colour by its hexadecimal form, whatever way it was written
Color(text) ==
    CASE text = "red" -> "#ff0000"
      [] text = "#F00" -> "#ff0000"
      [] text = "#424242" -> "#424242"
      [] OTHER -> text

\* the tag mapping is a dict: pairs <<key, value>> in insertion order
Keys(mapping) == {mapping[k][1] : k \in 1..Len(mapping)}
Value(mapping, key) ==
    mapping[CHOOSE k \in 1..Len(mapping) : mapping[k][1] = key][2]
HasTag(mapping, tag) ==
    \E k \in 1..Len(mapping) : mapping[k] = tag

\* the rules of the main visual, in declaration order
MainRules ==
    <<[tags |-> {<<"natural", "tree">>},
       shapes |-> <<[shape |-> "tree", color |-> "#98AC64"]>>],
      [tags |-> {<<"barrier", "gate">>},
       shapes |-> <<[shape |-> "gate", color |-> DEFAULT_COLOR]>>],
      [tags |-> {<<"vending", "drinks">>},
       shapes |-> <<[shape |-> "vending_bottle", color |-> DEFAULT_COLOR]>>],
      [tags |-> {<<"amenity", "vending_machine">>},
       shapes |-> <<[shape |-> "vending_machine", color |-> DEFAULT_COLOR]>>]>>

\* the rules of the extra icons, in declaration order
ExtraRules ==
    <<[tags |-> {<<"bicycle", "yes">>}, shape |-> "bicycle"],
      [tags |-> {<<"access", "private">>}, shape |-> "lock_with_keyhole"]>>

\* a rule matches when every tag of its condition is in the mapping
Matches(rule, mapping) == \A tag \in rule.tags : HasTag(mapping, tag)

MainMatches(mapping) ==
    {r \in 1..Len(MainRules) : Matches(MainRules[r], mapping)}

\* mutant: the colour tag is ignored
DefaultIconUncoloured(mapping) ==
    [shape_specifications |->
        <<[shape |-> DEFAULT_SHAPE_ID, color |-> DEFAULT_COLOR]>>]

\* the default shape, in the colour of the `colour` tag when there is one
DefaultIcon(mapping) ==
    [shape_specifications |->
        <<[shape |-> DEFAULT_SHAPE_ID,
           color |-> IF "colour" \in Keys(mapping)
                     THEN Color(Value(mapping, "colour"))
                     ELSE DEFAULT_COLOR]>>]

\* the first matching main rule wins; no match gives the default icon
MainIcon(mapping) ==
    IF MainMatches(mapping) = {} THEN DefaultIcon(mapping)
    ELSE LET r == CHOOSE x \in MainMatches(mapping) :
                      \A y \in MainMatches(mapping) : x <= y
         IN  [shape_specifications |-> MainRules[r].shapes]

ExtraIconOf(rule) ==
    [shape_specifications |-> <<[shape |-> rule.shape, color |-> EXTRA_COLOR]>>]

\* mutant: the extra icons are collected while walking over the tags
ExtraIconsInTagOrder(mapping) ==
    LET hit == SelectSeq(mapping, LAMBDA tag :
                   \E r \in 1..Len(ExtraRules) : ExtraRules[r].tags = {tag})
    IN  [k \in 1..Len(hit) |->
            ExtraIconOf(ExtraRules[CHOOSE r \in 1..Len(ExtraRules) :
                                      ExtraRules[r].tags = {hit[k]}])]

\* every matching extra rule gives one icon, in declaration order
ExtraIcons(mapping) ==
    LET hit == SelectSeq(ExtraRules, LAMBDA rule : Matches(rule, mapping))
    IN  [k \in 1..Len(hit) |-> ExtraIconOf(hit[k])]

\* Scheme.get_icon: the IconSet of a tag mapping
get_icon(mapping) ==
    [main_icon |-> MainIcon(mapping), extra_icons |-> ExtraIcons(mapping)]

\* Icon.is_default
is_default(an_icon) ==
    /\ Len(an_icon.shape_specifications) = 1
    /\ an_icon.shape_specifications[1].shape = DEFAULT_SHAPE_ID

Unresolved == [main_icon |-> <<>>, extra_icons |-> <<>>]

\* get_icon(tags) of the tests
GetIcon ==
    /\ pc = "get_icon"
    /\ icon' = get_icon(tags)
    /\ pc' = "done"
    /\ UNCHANGED <<drawInputs, svg, i, previous_height, pointVars, roadVars,
                   renderVars, tags>>

MainTags == UNION {MainRules[r].tags : r \in 1..Len(MainRules)}
ExtraTags == UNION {ExtraRules[r].tags : r \in 1..Len(ExtraRules)}
OtherTags ==
    {<<"aaa", "bbb">>, <<"colour", "#424242">>, <<"colour", "red">>,
     <<"colour", "#F00">>, <<"access", "yes">>, <<"natural", "wood">>}
TagValues == MainTags \cup ExtraTags \cup OtherTags

\* the dicts of at most MaxTags tags: no key twice
TagMappings ==
    {m \in SeqsUpTo(TagValues, MaxTags) :
        \A j, k \in 1..Len(m) : j # k => m[j][1] # m[k][1]}

InitIcons ==
    /\ entry = "get_icon" /\ pc = "get_icon" /\ svg = <<>> /\ i = 1
    /\ previous_height = 0
    /\ constructor = NoConstructor /\ configuration = NoConfiguration
    /\ tags \in TagMappings
    /\ icon = Unresolved
    /\ IdlePoints /\ IdleRoads /\ IdleRender

SpecIcons == InitIcons /\ [][GetIcon]_vars

\* the mapping with one more tag, entered at position k
Inserted(mapping, k, tag) ==
    SubSeq(mapping, 1, k - 1) \o <<tag>> \o SubSeq(mapping, k, Len(mapping))

\* the mapping without its k-th tag
Removed(mapping, k) ==
    SubSeq(mapping, 1, k - 1) \o SubSeq(mapping, k + 1, Len(mapping))

\* C7: for a tag mapping that no main rule matches get_icon returns a main
\* icon that is the default shape, in the colour of the `colour` tag when
\* the mapping has one and in the default colour of the scheme otherwise.
C7_DefaultIcon ==
    (pc = "done" /\ entry = "get_icon"
        /\ \A r \in 1..Len(MainRules) : ~Matches(MainRules[r], tags)) =>
        /\ is_default(icon.main_icon)
        /\ \A k \in 1..Len(tags) :
              tags[k][1] = "colour" =>
                  icon.main_icon.shape_specifications[1].color = Color(tags[k][2])
        /\ (\A k \in 1..Len(tags) : tags[k][1] # "colour") =>
              icon.main_icon.shape_specifications[1].color = DEFAULT_COLOR

\* test_no_icons_but_color has been resolved
C7_Witness ==
    /\ pc = "done"
    /\ tags = <<<<"aaa", "bbb">>, <<"colour", "#424242">>>>
    /\ is_default(icon.main_icon)
    /\ icon.main_icon.shape_specifications[1].color # DEFAULT_COLOR

ExtraShapes(icon_set) ==
    [k \in 1..Len(icon_set.extra_icons) |->
        icon_set.extra_icons[k].shape_specifications[1].shape]

DeclaredAt(shape) ==
    CHOOSE r \in 1..Len(ExtraRules) : ExtraRules[r].shape = shape

\* C8: the extra icons of a tag mapping do not change when a tag that only
\* triggers a main rule is added or removed, nor when the tags are given in
\* another order; the main icon does not change when a tag that only
\* triggers an extra rule is added; and the extra icons are those of the
\* matching extra rules, in the declaration order of the rules.
C8_ExtraIndependentOfMain ==
    (pc = "done" /\ entry = "get_icon") =>
        /\ \A tag \in MainTags \ ExtraTags, k \in 1..(Len(tags) + 1) :
              tag[1] \notin Keys(tags) =>
                  get_icon(Inserted(tags, k, tag)).extra_icons = icon.extra_icons
        /\ \A k \in 1..Len(tags) :
              tags[k] \in MainTags \ ExtraTags =>
                  get_icon(Removed(tags, k)).extra_icons = icon.extra_icons
        /\ \A tag \in ExtraTags \ MainTags, k \in 1..(Len(tags) + 1) :
              tag[1] \notin Keys(tags) =>
                  get_icon(Inserted(tags, k, tag)).main_icon = icon.main_icon
        /\ \A order \in Orders(Range(tags)) :
              get_icon(order).extra_icons = icon.extra_icons
        /\ \A j, k \in 1..Len(icon.extra_icons) :
              j < k => DeclaredAt(ExtraShapes(icon)[j])
                          < DeclaredAt(ExtraShapes(icon)[k])
        /\ Range(ExtraShapes(icon))
              = {ExtraRules[r].shape :
                    r \in {x \in 1..Len(ExtraRules) : Matches(ExtraRules[x], tags)}}

\* test_icon_2_extra has been resolved: access comes before bicycle in the
\* tags, bicycle before lock_with_keyhole in the extra icons
C8_Witness ==
    /\ pc = "done"
    /\ tags = <<<<"barrier", "gate">>, <<"access", "private">>,
                <<"bicycle", "yes">>>>
    /\ ExtraShapes(icon) = <<"bicycle", "lock_with_keyhole">>
    /\ ~is_default(icon.main_icon)

====
